---- MODULE Spec2Model ----
(***************************************************************************)
(* Ostap::Math::Bernstein (source/include/Ostap/Bernstein.h): polynomials  *)
(* in the Bernstein basis over an interval [xmin,xmax].                    *)
(*                                                                         *)
(* Numbers.  A double / long double is modelled by an exact rational       *)
(* <<n,d>> in lowest terms with d > 0, extended by the IEEE special values *)
(* +inf = <<1,0>>, -inf = <<-1,0>> and NaN = <<0,0>>, so that a division   *)
(* by zero (degenerate interval, repeated abscissa) yields what the        *)
(* hardware yields instead of being left out.  Rounding is not modelled    *)
(* ("exact arithmetic"); a zero is always +0.                              *)
(***************************************************************************)
EXTENDS Integers, Sequences, FiniteSets, TLC

VARIABLES pc, self, other, how, obs

vars == <<pc, self, other, how, obs>>

(***************************************************************************)
(* Bounds of the model.                                                    *)
(***************************************************************************)
\* largest number of abscissas / coefficients of an input
MaxPts == 3
\* abscissas, interval edges and evaluation points are the integers 0..MaxAbs
MaxAbs == 2
\* coefficients are the integers -1..MaxOrd
MaxOrd == 1
\* largest degree asked of lobatto
MaxLobatto == 4
\* largest number of degrees raised by elevate
MaxRaise == 2
\* largest degree of a basic polynomial
MaxBasic == 4
\* largest number of operations applied in place to one instance
MaxOps == 2

\* the number of values of an unsigned short
UnsignedShortRange == 65536

\* the value an unsigned int takes when 0 is decremented.  It stands at the
\* largest integer the checker holds, which like UINT_MAX exceeds every N, every
\* s and every position of the work arrays.
UnsignedIntMax == 2147483647

(***************************************************************************)
(* double arithmetic                                                       *)
(***************************************************************************)
Abs(n) == IF n < 0 THEN -n ELSE n

Sgn(n) == IF n > 0 THEN 1 ELSE IF n < 0 THEN -1 ELSE 0

RECURSIVE Gcd(_, _)
Gcd(a, b) == IF b = 0 THEN a ELSE Gcd(b, a % b)

\* the value n/d; d = 0 gives an infinity (n # 0) or NaN (n = 0)
Frac(n, d) ==
    IF d = 0 THEN <<Sgn(n), 0>>
    ELSE LET g == Gcd(Abs(n), Abs(d))
             s == Sgn(d)
         IN  <<(s * n) \div g, (s * d) \div g>>

R(i) == <<i, 1>>

NaN == <<0, 0>>

IsNaN(a) == a[1] = 0 /\ a[2] = 0

IsInf(a) == a[1] # 0 /\ a[2] = 0

IsFinite(a) == a[2] # 0

RNeg(a) == <<-a[1], a[2]>>

RAdd(a, b) ==
    IF IsInf(a) /\ IsInf(b) THEN (IF a[1] = b[1] THEN a ELSE NaN)
    ELSE Frac(a[1] * b[2] + b[1] * a[2], a[2] * b[2])

RSub(a, b) == RAdd(a, RNeg(b))

RMul(a, b) == Frac(a[1] * b[1], a[2] * b[2])

RDiv(a, b) ==
    IF IsInf(a) /\ IsFinite(b)
    THEN <<a[1] * (IF b[1] < 0 THEN -1 ELSE 1), 0>>
    ELSE Frac(a[1] * b[2], a[2] * b[1])

\* comparisons: every comparison with a NaN is false
RLt(a, b) ==
    /\ ~IsNaN(a)
    /\ ~IsNaN(b)
    /\ IF a[2] = 0 /\ b[2] = 0 THEN a[1] < b[1]
       ELSE a[1] * b[2] < b[1] * a[2]

REq(a, b) == ~IsNaN(a) /\ ~IsNaN(b) /\ a = b

RLe(a, b) == RLt(a, b) \/ REq(a, b)

\* std::min ( a , b ) is ( b < a ) ? b : a, std::max ( a , b ) is ( a < b ) ? b : a
RMin(a, b) == IF RLt(b, a) THEN b ELSE a

RMax(a, b) == IF RLt(a, b) THEN b ELSE a

(***************************************************************************)
(* sequences of numbers                                                    *)
(***************************************************************************)
\* n copies of v: std::vector<long double> ( n , v )
Fill(n, v) == [i \in 1..n |-> v]

\* all sequences over S of length lo..hi
SeqsOf(S, lo, hi) == UNION {[1..n -> S] : n \in lo..hi}

Distinct(s) == \A i, j \in DOMAIN s : i # j => s[i] # s[j]

(***************************************************************************)
(* PolySum: the coefficient container the class derives from.  A Bernstein *)
(* value is [pars, xmin, xmax]; its degree is Len(pars) - 1.               *)
(***************************************************************************)
\* PolySum ( degree ): degree + 1 zero coefficients
PolySum_degree(n) == Fill(n + 1, R(0))

\* PolySum ( first , last ): a copy of the sequence, a single zero when it is empty
PolySum_range(pars) == IF Len(pars) = 0 THEN <<R(0)>> ELSE pars

degree(b) == Len(b.pars) - 1

\* the edges stored as they are given
Bernstein_range_unordered(pars, xmin, xmax) ==
    [pars |-> PolySum_range(pars), xmin |-> xmin, xmax |-> xmax]

\* template <class ITERATOR> Bernstein ( first , last , xmin , xmax )
Bernstein_range(pars, xmin, xmax) ==
    [pars |-> PolySum_range(pars), xmin |-> RMin(xmin, xmax), xmax |-> RMax(xmin, xmax)]

\* convert from global to local variable and back
Bernstein_t(b, x) == RDiv(RSub(x, b.xmin), RSub(b.xmax, b.xmin))

\* the map without the shift by xmin
Bernstein_x_unshifted(b, t) == RMul(RSub(b.xmax, b.xmin), t)

Bernstein_x(b, t) == RAdd(b.xmin, RMul(RSub(b.xmax, b.xmin), t))

\* de Casteljau summation: N passes blending neighbours k and k+1 with weight t
RECURSIVE casteljau(_, _)
casteljau(pars, t) ==
    IF Len(pars) = 0 THEN R(0)
    ELSE IF Len(pars) = 1 THEN pars[1]
    ELSE casteljau([k \in 1..(Len(pars) - 1) |->
                       RAdd(RMul(RSub(R(1), t), pars[k]), RMul(t, pars[k + 1]))], t)

evaluate(b, x) == casteljau(b.pars, Bernstein_t(b, x))

\* the edges themselves taken for outside
operator_call_open(b, x) ==
    IF RLe(x, b.xmin) THEN R(0)
    ELSE IF RLe(b.xmax, x) THEN R(0)
    ELSE evaluate(b, x)

\* double operator () ( const double x ) const
operator_call(b, x) ==
    IF RLt(x, b.xmin) THEN R(0)
    ELSE IF RLt(b.xmax, x) THEN R(0)
    ELSE evaluate(b, x)

(***************************************************************************)
(* The interpolating constructor (Newton-Bernstein algorithm).  Indices of *)
(* the source are 0-based, those of a sequence 1-based: _f[k] is f[k+1].   *)
(***************************************************************************)
Min2(a, b) == IF a < b THEN a ELSE b

Max2(a, b) == IF a < b THEN b ELSE a

\* std::vector<long double> _t ( std::max ( N , 1u ) ) filled by std::transform
Init_t(b, xs) ==
    [i \in 1..Max2(Len(xs), 1) |-> IF i <= Len(xs) THEN Bernstein_t(b, xs[i]) ELSE R(0)]

\* the missing ordinates taken from the last one given
Init_f_repeat(ys, N) ==
    [i \in 1..N |-> IF i <= Len(ys) THEN ys[i]
                    ELSE IF Len(ys) > 0 THEN ys[Len(ys)] ELSE R(0)]

\* std::vector<long double> _f ( N ) , then the first min ( N , NY ) ordinates
Init_f(ys, N) ==
    [i \in 1..N |-> IF i <= Min2(N, Len(ys)) THEN ys[i] ELSE R(0)]

\* the divided differences taken with k ascending from s to N - 1
RECURSIVE DividedDifferences_ascending(_, _, _, _)
DividedDifferences_ascending(f, t, s, k) ==
    IF ~(s <= k) THEN f
    ELSE [DividedDifferences_ascending(f, t, s, k - 1) EXCEPT ![k + 1] =
             RDiv(RSub(DividedDifferences_ascending(f, t, s, k - 1)[k + 1],
                       DividedDifferences_ascending(f, t, s, k - 1)[k]),
                  RSub(t[k + 1], t[k - s + 1]))]

\* the divided differences of stage s: for ( k = N - 1 ; s <= k ; --k )
RECURSIVE DividedDifferences(_, _, _, _)
DividedDifferences(f, t, s, k) ==
    IF ~(s <= k) THEN f
    ELSE DividedDifferences(
            [f EXCEPT ![k + 1] = RDiv(RSub(f[k + 1], f[k]), RSub(t[k + 1], t[k - s + 1]))],
            t, s, k - 1)

\* the second term added instead of subtracted
Next_w_plus(w, xs1, s, j) ==
    RAdd(RDiv(RMul(RMul(R(j), w[j]), RSub(R(1), xs1)), R(s)),
         RDiv(RMul(RMul(R(s - j), xs1), w[j + 1]), R(s)))

\* the new w[j] and c[j] of stage s
Next_w(w, xs1, s, j) ==
    RSub(RDiv(RMul(RMul(R(j), w[j]), RSub(R(1), xs1)), R(s)),
         RDiv(RMul(RMul(R(s - j), xs1), w[j + 1]), R(s)))

Next_c(c, wj, fs, s, j) ==
    RAdd(RAdd(RDiv(RMul(R(j), c[j]), R(s)), RDiv(RMul(R(s - j), c[j + 1]), R(s))),
         RMul(wj, fs))

\* for ( j = s ; 1 <= j ; --j ) on the pair wc = [w, c]
RECURSIVE Blend(_, _, _, _, _)
Blend(wc, fs, xs1, s, j) ==
    IF ~(1 <= j) THEN wc
    ELSE LET wj == Next_w(wc.w, xs1, s, j)
             cj == Next_c(wc.c, wj, fs, s, j)
         IN  Blend([w |-> [wc.w EXCEPT ![j + 1] = wj],
                    c |-> [wc.c EXCEPT ![j + 1] = cj]], fs, xs1, s, j - 1)

\* one pass of the loop over s on st = [f, w, c]
Stage(st, t, s, N) ==
    LET f   == DividedDifferences(st.f, t, s, N - 1)
        xs1 == t[s]
        wc  == Blend([w |-> st.w, c |-> st.c], f[s + 1], xs1, s, s)
        w0  == RMul(RNeg(wc.w[1]), xs1)
        c0  == RAdd(wc.c[1], RMul(w0, f[s + 1]))
    IN  [f |-> f, w |-> [wc.w EXCEPT ![1] = w0], c |-> [wc.c EXCEPT ![1] = c0]]

\* for ( s = 1 ; s < N ; ++s )
RECURSIVE Stages(_, _, _, _)
Stages(st, t, s, N) ==
    IF ~(s < N) THEN st ELSE Stages(Stage(st, t, s, N), t, s + 1, N)

\* the work arrays with c[0] left at 0.0
Stage0_unset(ys, N) ==
    [f |-> Init_f(ys, N),
     w |-> [Fill(N, R(0)) EXCEPT ![1] = R(1)],
     c |-> Fill(N, R(0))]

\* the work arrays before the first stage: w[0] = 1.0 , c[0] = _f[0]
Stage0(ys, N) ==
    LET f == Init_f(ys, N)
    IN  [f |-> f,
         w |-> [Fill(N, R(0)) EXCEPT ![1] = R(1)],
         c |-> [Fill(N, R(0)) EXCEPT ![1] = f[1]]]

\* finally set parameters: setPar ( i , c[i] ) for i < N
SetPars(pars, c, N) == [i \in DOMAIN pars |-> IF i <= N THEN c[i] ELSE pars[i]]

\* template <class XITERATOR,class YITERATOR>
\* Bernstein ( xbegin , xend , ybegin , yend , xmin , xmax ).
\* With no abscissa the writes w[0], c[0] and the read _f[0] fall outside the
\* empty arrays; the value below is what is left when that does no harm.
Bernstein_interpolant(xs, ys, xmin, xmax) ==
    LET N  == Len(xs)
        b0 == [pars |-> PolySum_degree(IF N = 0 THEN 0 ELSE N - 1),
               xmin |-> RMin(xmin, xmax),
               xmax |-> RMax(xmin, xmax)]
    IN  IF N = 0 THEN b0
        ELSE [b0 EXCEPT !.pars =
                 SetPars(b0.pars, Stages(Stage0(ys, N), Init_t(b0, xs), 1, N).c, N)]

\* Interpolation::bernstein ( xbegin , xend , ybegin , yend , xmin , xmax )
bernstein(xs, ys, xmin, xmax) == Bernstein_interpolant(xs, ys, xmin, xmax)

(***************************************************************************)
(* Algebra in the Bernstein basis: elevation, sum, product and division.   *)
(* The bodies of these members are not in the header; they follow the      *)
(* identities of the basis.  Coefficient k of the source is pars[k+1].     *)
(***************************************************************************)
RECURSIVE Binomial(_, _)
Binomial(n, k) ==
    IF k < 0 \/ k > n THEN 0
    ELSE IF k = 0 THEN 1
    ELSE (Binomial(n - 1, k - 1) * n) \div k

\* the sum of the numbers term(i) for i in lo..hi
RECURSIVE RSum(_, _, _)
RSum(term(_), lo, hi) ==
    IF lo > hi THEN R(0) ELSE RAdd(term(lo), RSum(term, lo + 1, hi))

\* the degree raised by one: c'[k] = k/(n+1) c[k-1] + (1 - k/(n+1)) c[k]
ElevateOnce(pars) ==
    LET n == Len(pars) - 1
    IN  [i \in 1..(n + 2) |->
            IF i = 1 THEN pars[1]
            ELSE IF i = n + 2 THEN pars[n + 1]
            ELSE RAdd(RMul(Frac(i - 1, n + 1), pars[i - 1]),
                      RMul(RSub(R(1), Frac(i - 1, n + 1)), pars[i])) ]

\* the degree raised by one with the two weights exchanged
ElevateOnce_swapped(pars) ==
    LET n == Len(pars) - 1
    IN  [i \in 1..(n + 2) |->
            IF i = 1 THEN pars[1]
            ELSE IF i = n + 2 THEN pars[n + 1]
            ELSE RAdd(RMul(RSub(R(1), Frac(i - 1, n + 1)), pars[i - 1]),
                      RMul(Frac(i - 1, n + 1), pars[i])) ]

RECURSIVE ElevatePars(_, _)
ElevatePars(pars, r) == IF r = 0 THEN pars ELSE ElevatePars(ElevateOnce(pars), r - 1)

RECURSIVE ElevatePars_swapped(_, _)
ElevatePars_swapped(pars, r) ==
    IF r = 0 THEN pars ELSE ElevatePars_swapped(ElevateOnce_swapped(pars), r - 1)

elevate_swapped(b, r) == [b EXCEPT !.pars = ElevatePars_swapped(b.pars, r)]

\* Bernstein elevate ( const unsigned short r ) const
elevate(b, r) == [b EXCEPT !.pars = ElevatePars(b.pars, r)]

\* Bernstein sum ( const Bernstein& other ) const: both raised to the larger degree
sum(a, b) ==
    LET n  == Max2(degree(a), degree(b))
        pa == ElevatePars(a.pars, n - degree(a))
        pb == ElevatePars(b.pars, n - degree(b))
    IN  [a EXCEPT !.pars = [i \in 1..(n + 1) |-> RAdd(pa[i], pb[i])]]

\* Bernstein multiply ( const Bernstein& other ) const: the degrees add
multiply(a, b) ==
    LET n == degree(a)
        m == degree(b)
        term(k, i) == RMul(Frac(Binomial(n, i) * Binomial(m, k - i), Binomial(n + m, k)),
                           RMul(a.pars[i + 1], b.pars[k - i + 1]))
    IN  [a EXCEPT !.pars =
            [k1 \in 1..(n + m + 1) |->
                LET k == k1 - 1
                    t(i) == term(k, i)
                IN  RSum(t, Max2(0, k - m), Min2(n, k))]]

\* the coefficients a[j+1] of t^j of the polynomial with Bernstein coefficients c
ToPower(c) ==
    LET n == Len(c) - 1
    IN  [j1 \in 1..(n + 1) |->
            LET j == j1 - 1
                t(i) == RMul(R((IF (j - i) % 2 = 0 THEN 1 ELSE -1) * Binomial(j, i)), c[i + 1])
            IN  RMul(R(Binomial(n, j)), RSum(t, 0, j))]

\* the Bernstein coefficients of degree d of the polynomial sum a[j+1] t^j
FromPower(a, d) ==
    [i1 \in 1..(d + 1) |->
        LET i == i1 - 1
            t(j) == RMul(Frac(Binomial(i, j), Binomial(d, j)), a[j + 1])
        IN  RSum(t, 0, Min2(i, Len(a) - 1))]

\* the largest j with a[j+1] # 0 , and 0 for the zero polynomial
RECURSIVE TrueDegree(_)
TrueDegree(a) ==
    IF Len(a) <= 1 THEN 0
    ELSE IF a[Len(a)] # R(0) THEN Len(a) - 1
    ELSE TrueDegree(SubSeq(a, 1, Len(a) - 1))

IsZero(pars) == \A i \in DOMAIN pars : pars[i] = R(0)

\* long division of power-basis polynomials, b # 0: qr = [q, r] with a = q b + r
RECURSIVE LongDivision(_, _)
LongDivision(qr, b) ==
    LET dr == TrueDegree(qr.r)
        db == TrueDegree(b)
    IN  IF dr < db \/ IsZero(qr.r) THEN qr
        ELSE LET coef  == RDiv(qr.r[dr + 1], b[db + 1])
                 shift == dr - db
             IN  LongDivision(
                    [q |-> [qr.q EXCEPT ![shift + 1] = coef],
                     r |-> [j \in DOMAIN qr.r |->
                              IF j - shift \in DOMAIN b
                              THEN RSub(qr.r[j], RMul(coef, b[j - shift]))
                              ELSE qr.r[j]]], b)

\* std::pair<Bernstein,Bernstein> divmod ( const Bernstein& g ) const: <<q, r>> with
\* f = q g + r; q = 0 and r = f when g is the zero polynomial or of larger degree
Bernstein_divmod(f, g) ==
    IF IsZero(g.pars) \/ degree(g) > degree(f)
    THEN <<[f EXCEPT !.pars = <<R(0)>>], f>>
    ELSE LET b  == ToPower(g.pars)
             qr == LongDivision([q |-> Fill(Len(f.pars), R(0)), r |-> ToPower(f.pars)], b)
         IN  <<[f EXCEPT !.pars = FromPower(qr.q, degree(f) - TrueDegree(b))],
               [f EXCEPT !.pars = FromPower(qr.r, Max2(TrueDegree(b) - 1, 0))]>>

\* Bernstein quotient ( const Bernstein& g ) const
quotient(f, g) == Bernstein_divmod(f, g)[1]

\* Bernstein reminder ( const Bernstein& g ) const
reminder(f, g) == Bernstein_divmod(f, g)[2]

\* Bernstein plus Bernstein , Bernstein multiply Bernstein
operator_plus(a, b) == sum(a, b)

operator_times(a, b) == multiply(a, b)

\* polynomial division: quotient
operator_div(a, b) == quotient(a, b)

\* the quotient returned for the reminder
operator_mod_quotient(a, b) == quotient(a, b)

\* polynomial division: reminder
operator_mod(a, b) == reminder(a, b)

\* the operands exchanged
divmod_exchanged(a, b) == Bernstein_divmod(b, a)

\* inline std::pair<Bernstein,Bernstein> divmod ( a , b )
divmod(a, b) == Bernstein_divmod(a, b)

(***************************************************************************)
(* Interpolation::lobatto                                                  *)
(***************************************************************************)
\* the callables handed to lobatto
Functions == {"one", "id", "sq"}

Apply(func, x) ==
    IF func = "one" THEN R(1)
    ELSE IF func = "id" THEN x
    ELSE RMul(x, x)

\* std::cos ( pi * k / n ), 0 <= k <= n <= 6: exact where it is rational, to
\* one decimal elsewhere
RECURSIVE CosPi(_, _)
CosPi(k, n) ==
    IF k = 0 THEN R(1)
    ELSE IF 2 * k = n THEN R(0)
    ELSE IF 2 * k > n THEN RNeg(CosPi(n - k, n))
    ELSE IF 3 * k = n THEN Frac(1, 2)
    ELSE IF 4 * k = n THEN Frac(7, 10)
    ELSE IF 6 * k = n THEN Frac(13, 15)
    ELSE IF 5 * k = n THEN Frac(4, 5)
    ELSE Frac(3, 10)

\* the lambda _xi_ ( k ) = xhs - std::cos ( pi_N1 * k ) * xhd , pi_N1 = pi / ( N - 1 )
Lobatto_xi(k, N, xmin, xmax) ==
    LET x_min == RMin(xmin, xmax)
        x_max == RMax(xmin, xmax)
        xhs   == RMul(Frac(1, 2), RAdd(x_min, x_max))
        xhd   == RMul(Frac(1, 2), RSub(x_max, x_min))
    IN  RSub(xhs, RMul(CosPi(k, N - 1), xhd))

\* the indices the loop for ( i = 1 ; i + 1 < N ; ++i ) assigns
Lobatto_assigned(N) == {i \in 1..N : i + 1 < N}

\* a grid of N points only
Lobatto_grid_short(N, xmin, xmax) ==
    [i \in 1..N |->
        IF i = N THEN RMax(xmin, xmax)
        ELSE IF i = 1 THEN RMin(xmin, xmax)
        ELSE Lobatto_xi(i - 1, N, xmin, xmax)]

\* the grid for N >= 1: std::vector<double> x ( N + 1 ), front, back, the loop
Lobatto_grid(N, xmin, xmax) ==
    [i \in 1..(N + 1) |->
        IF i = N + 1 THEN RMax(xmin, xmax)
        ELSE IF i = 1 THEN RMin(xmin, xmax)
        ELSE IF (i - 1) \in Lobatto_assigned(N) THEN Lobatto_xi(i - 1, N, xmin, xmax)
        ELSE R(0)]

\* Interpolation::bernstein ( func , xbegin , xend , xmin , xmax )
bernstein_func(func, xs, xmin, xmax) ==
    bernstein(xs, [i \in DOMAIN xs |-> Apply(func, xs[i])], xmin, xmax)

\* the abscissas lobatto interpolates on
Lobatto_abscissas(N, xmin, xmax) ==
    IF 0 = N THEN <<RMul(Frac(1, 2), RAdd(xmin, xmax))>>
    ELSE Lobatto_grid(N, xmin, xmax)

\* the trivial grid put on the left edge instead of the middle
lobatto_at_edge(func, N, xmin, xmax) ==
    IF 0 = N
    THEN bernstein(<<xmin>>, <<Apply(func, xmin)>>, xmin, xmax)
    ELSE bernstein_func(func, Lobatto_grid(N, xmin, xmax), xmin, xmax)

\* Interpolation::lobatto ( func , N , xmin , xmax )
lobatto(func, N, xmin, xmax) ==
    IF 0 = N
    THEN LET x == RMul(Frac(1, 2), RAdd(xmin, xmax))
         IN  bernstein(<<x>>, <<Apply(func, x)>>, xmin, xmax)
    ELSE bernstein_func(func, Lobatto_grid(N, xmin, xmax), xmin, xmax)

(***************************************************************************)
(* Inputs                                                                  *)
(***************************************************************************)
Abscissas == {R(i) : i \in 0..MaxAbs}

\* the interpolant is linear in its ordinates: two values span every pattern
Ordinates == {R(0), R(1)}

Coefficients == {R(i) : i \in -1..MaxOrd}

\* how an instance is made: the constructor and its arguments
Made(ctor, xs, ys, a, b, N, func) ==
    [ctor |-> ctor, xs |-> xs, ys |-> ys, a |-> a, b |-> b, N |-> N, func |-> func]

\* what was last observed of it: the operation, its argument and its result
Seen(op, x, val) == [op |-> op, x |-> x, val |-> val]

NoInstance == [pars |-> <<>>, xmin |-> NaN, xmax |-> NaN]

\* coefficient sequences, possibly empty, with interval edges in either order
RangeInputs(h) ==
    \E pars \in SeqsOf(Coefficients, 0, MaxPts), a \in Abscissas, b \in Abscissas :
       h = Made("range", <<>>, pars, a, b, 0, "one")

\* pairwise distinct abscissas; as many ordinates, fewer, or one more
InterpolantInputs(h) ==
    \E xs \in SeqsOf(Abscissas, 1, MaxPts), a \in Abscissas, b \in Abscissas :
       /\ Distinct(xs)
       /\ \E ys \in SeqsOf(Ordinates, 0, Len(xs) + 1) :
             h = Made("interpolant", xs, ys, a, b, 0, "one")

\* no abscissa at all
EmptyInputs(h) ==
    \E ys \in SeqsOf(Ordinates, 0, 1), a \in Abscissas, b \in Abscissas :
       h = Made("interpolant", <<>>, ys, a, b, 0, "one")

LobattoInputs(h) ==
    \E func \in Functions, N \in 0..MaxLobatto, a \in Abscissas, b \in Abscissas :
       h = Made("lobatto", <<>>, <<>>, a, b, N, func)

(***************************************************************************)
(* Spec: the constructors.  A run draws the arguments and builds one       *)
(* instance from them.                                                     *)
(***************************************************************************)
Init ==
    /\ pc = "start"
    /\ self = NoInstance
    /\ other = NoInstance
    /\ obs = Seen("none", R(0), R(0))
    /\ \/ RangeInputs(how)
       \/ InterpolantInputs(how)
       \/ EmptyInputs(how)
       \/ LobattoInputs(how)

\* Bernstein ( first , last , xmin , xmax )
Construct_range ==
    /\ pc = "start"
    /\ how.ctor = "range"
    /\ self' = Bernstein_range(how.ys, how.a, how.b)
    /\ pc' = "built"
    /\ UNCHANGED <<other, how, obs>>

\* Interpolation::bernstein ( xbegin , xend , ybegin , yend , xmin , xmax ) with at
\* least one abscissa
Construct_interpolant ==
    /\ pc = "start"
    /\ how.ctor = "interpolant"
    /\ Len(how.xs) > 0
    /\ self' = bernstein(how.xs, how.ys, how.a, how.b)
    /\ pc' = "built"
    /\ UNCHANGED <<other, how, obs>>

\* the same with no abscissa: the constructor writes w[0] and c[0] and reads
\* _f[0] of empty arrays, which either ends the program or does no harm
Construct_empty ==
    /\ pc = "start"
    /\ how.ctor = "interpolant"
    /\ Len(how.xs) = 0
    /\ \/ /\ pc' = "fault"
          /\ UNCHANGED self
       \/ /\ pc' = "built"
          /\ self' = bernstein(how.xs, how.ys, how.a, how.b)
    /\ UNCHANGED <<other, how, obs>>

\* Interpolation::lobatto ( func , N , xmin , xmax )
Construct_lobatto ==
    /\ pc = "start"
    /\ how.ctor = "lobatto"
    /\ self' = lobatto(how.func, how.N, how.a, how.b)
    /\ how' = [how EXCEPT !.xs = Lobatto_abscissas(how.N, how.a, how.b)]
    /\ pc' = "built"
    /\ UNCHANGED <<other, obs>>

Next ==
    \/ Construct_range
    \/ Construct_interpolant
    \/ Construct_empty
    \/ Construct_lobatto

Spec == Init /\ [][Next]_vars

(***************************************************************************)
(* SpecCall: an instance built from coefficients is called at a point.     *)
(***************************************************************************)
\* the points of evaluation: the integers -1..MaxAbs+1 and the halves between
Points == {Frac(i, 2) : i \in -2..(2 * MaxAbs + 2)}

InitCall ==
    /\ pc = "start"
    /\ self = NoInstance
    /\ other = NoInstance
    /\ obs = Seen("none", R(0), R(0))
    /\ RangeInputs(how)

\* p ( x )
Call ==
    /\ pc = "built"
    /\ \E x \in Points : obs' = Seen("call", x, operator_call(self, x))
    /\ pc' = "called"
    /\ UNCHANGED <<self, other, how>>

NextCall ==
    \/ Construct_range
    \/ Call

SpecCall == InitCall /\ [][NextCall]_vars

(***************************************************************************)
(* SpecDiv: two polynomials f and g on one interval are divided.           *)
(***************************************************************************)
\* the coefficients of f (ys) and of g (xs), on the interval [0,MaxAbs]; the
\* quotient and the reminder are linear in f, whose coefficients are 0 or 1
DivInputs(h) ==
    \E fpars \in SeqsOf(Ordinates, 1, MaxPts), gpars \in SeqsOf(Coefficients, 1, MaxPts - 1) :
       h = Made("operands", gpars, fpars, R(0), R(MaxAbs), 0, "one")

InitDiv ==
    /\ pc = "start"
    /\ self = NoInstance
    /\ other = NoInstance
    /\ obs = Seen("none", R(0), R(0))
    /\ DivInputs(how)

Construct_operands ==
    /\ pc = "start"
    /\ how.ctor = "operands"
    /\ self' = Bernstein_range(how.ys, how.a, how.b)
    /\ other' = Bernstein_range(how.xs, how.a, how.b)
    /\ pc' = "built"
    /\ UNCHANGED <<how, obs>>

\* divmod ( f , g )
Divide_divmod ==
    /\ pc = "built"
    /\ obs' = Seen("divmod", other, divmod(self, other))
    /\ pc' = "divided"
    /\ UNCHANGED <<self, other, how>>

\* f / g and f % g
Divide_operators ==
    /\ pc = "built"
    /\ obs' = Seen("operators", other, <<operator_div(self, other), operator_mod(self, other)>>)
    /\ pc' = "divided"
    /\ UNCHANGED <<self, other, how>>

NextDiv ==
    \/ Construct_operands
    \/ Divide_divmod
    \/ Divide_operators

SpecDiv == InitDiv /\ [][NextDiv]_vars

(***************************************************************************)
(* SpecElev: a polynomial on a proper interval is elevated.                *)
(***************************************************************************)
InitElev ==
    /\ pc = "start"
    /\ self = NoInstance
    /\ other = NoInstance
    /\ obs = Seen("none", R(0), R(0))
    /\ RangeInputs(how)
    /\ how.a # how.b

\* p.elevate ( r )
Elevate ==
    /\ pc = "built"
    /\ \E r \in 1..MaxRaise : obs' = Seen("elevate", r, elevate(self, r))
    /\ pc' = "elevated"
    /\ UNCHANGED <<self, other, how>>

NextElev ==
    \/ Construct_range
    \/ Elevate

SpecElev == InitElev /\ [][NextElev]_vars

(***************************************************************************)
(* Claims                                                                  *)
(***************************************************************************)
Built(ctor) == pc = "built" /\ how.ctor = ctor

Lower(a, b) == IF RLt(a, b) THEN a ELSE b

Upper(a, b) == IF RLt(a, b) THEN b ELSE a

\* C1: a call at a point below xmin or above xmax returns exactly 0; a call at
\* a point of [xmin,xmax], both edges included, returns evaluate at that point.
C1_CallIsZeroOutside ==
    pc = "called" =>
       /\ (RLt(obs.x, self.xmin) \/ RLt(self.xmax, obs.x)) => obs.val = R(0)
       /\ (RLe(self.xmin, obs.x) /\ RLe(obs.x, self.xmax)) => obs.val = evaluate(self, obs.x)

\* a call above xmax of a polynomial that does not vanish there
C1_Witness ==
    /\ pc = "called"
    /\ RLt(self.xmax, obs.x)
    /\ evaluate(self, obs.x) # R(0)
    /\ obs.val = R(0)

\* the interpolant called at its i-th abscissa gives the i-th ordinate
Reproduces(i) == REq(operator_call(self, how.xs[i]), how.ys[i])

InsideInterval(x) == RLe(Lower(how.a, how.b), x) /\ RLe(x, Upper(how.a, how.b))

\* C2 as stated: for pairwise distinct abscissas and as many ordinates, on an
\* interval that is not degenerate, the interpolant called at every abscissa
\* returns the ordinate given for it.
C2_InterpolantReproducesSamples ==
    (Built("interpolant") /\ Len(how.xs) = Len(how.ys) /\ how.a # how.b) =>
       \A i \in DOMAIN how.xs : Reproduces(i)

\* C2 as amended: the same for the abscissas that lie in [xmin,xmax]; at an
\* abscissa outside the interval the call returns 0.
C2_InterpolantReproducesSamplesInside ==
    (Built("interpolant") /\ Len(how.xs) = Len(how.ys) /\ how.a # how.b) =>
       \A i \in DOMAIN how.xs :
          IF InsideInterval(how.xs[i]) THEN Reproduces(i)
          ELSE operator_call(self, how.xs[i]) = R(0)

\* three samples inside the interval that do not lie on a line
C2_Witness ==
    /\ Built("interpolant")
    /\ Len(how.xs) = 3
    /\ how.ys = <<R(0), R(1), R(0)>>
    /\ how.a # how.b
    /\ \A i \in DOMAIN how.xs : InsideInterval(how.xs[i])
    /\ \A i \in DOMAIN how.xs : Reproduces(i)

\* the first n ordinates, zeros where there are none
Padded(ys, n) == [i \in 1..n |-> IF i <= Len(ys) THEN ys[i] ELSE R(0)]

\* C3: the interpolant is the one built from the first N ordinates, with a zero
\* for each one that is missing: ordinates beyond the N-th change nothing.
C3_OrdinatesCutOrPadded ==
    Built("interpolant") =>
       self = bernstein(how.xs, Padded(how.ys, Len(how.xs)), how.a, how.b)

\* fewer ordinates than abscissas, the last one given not zero
C3_Witness ==
    /\ Built("interpolant")
    /\ Len(how.ys) > 0
    /\ Len(how.ys) < Len(how.xs)
    /\ how.ys[Len(how.ys)] # R(0)
    /\ how.a # how.b

\* the instance the same constructor gives with the edges exchanged
Exchanged ==
    IF how.ctor = "range" THEN Bernstein_range(how.ys, how.b, how.a)
    ELSE IF how.ctor = "interpolant" THEN bernstein(how.xs, how.ys, how.b, how.a)
    ELSE lobatto(how.func, how.N, how.b, how.a)

\* C4: a constructed instance has xmin = min(a,b) and xmax = max(a,b) of the
\* edges given, xmin <= xmax, and is the instance the exchanged edges give.
C4_EdgesOrdered ==
    pc = "built" =>
       /\ self.xmin = Lower(how.a, how.b)
       /\ self.xmax = Upper(how.a, how.b)
       /\ RLe(self.xmin, self.xmax)
       /\ self = Exchanged

\* an instance built from edges given in descending order
C4_Witness ==
    /\ pc = "built"
    /\ RLt(how.b, how.a)
    /\ self.xmin = how.b
    /\ self.xmax = how.a

\* C5: no instance with xmin = xmax is produced: xmin < xmax in every instance.
C5_NoDegenerateInterval ==
    pc = "built" => RLt(self.xmin, self.xmax)

\* C6: the interpolant of N >= 1 abscissas has degree N - 1, and
\* lobatto ( func , N , xmin , xmax ) has degree N for every N >= 0.
C6_InterpolantDegree ==
    /\ (Built("interpolant") /\ Len(how.xs) >= 1) => degree(self) = Len(how.xs) - 1
    /\ Built("lobatto") =>
          /\ degree(self) = how.N
          /\ Len(how.xs) = (IF how.N = 0 THEN 1 ELSE how.N + 1)

\* lobatto of a degree above 1
C6_Witness ==
    /\ Built("lobatto")
    /\ how.N > 1
    /\ degree(self) = how.N

\* C7: for N >= 1 the grid of lobatto has N + 1 abscissas, the first min(xmin,xmax),
\* the last max(xmin,xmax), and every x[k] with 0 < k < N between them equal to
\* xhs - cos ( pi * k / ( N - 1 ) ) * xhd.
C7_LobattoGrid ==
    (Built("lobatto") /\ how.N >= 1) =>
       /\ Len(how.xs) = how.N + 1
       /\ how.xs[1] = Lower(how.a, how.b)
       /\ how.xs[how.N + 1] = Upper(how.a, how.b)
       /\ \A k \in 1..(how.N - 1) : how.xs[k + 1] = Lobatto_xi(k, how.N, how.a, how.b)

\* two instances that are one polynomial: the same interval and, raised to the
\* larger of the two degrees, the same coefficients
SamePolynomial(p1, p2) ==
    LET n == Max2(degree(p1), degree(p2))
    IN  /\ p1.xmin = p2.xmin
        /\ p1.xmax = p2.xmax
        /\ ElevatePars(p1.pars, n - degree(p1)) = ElevatePars(p2.pars, n - degree(p2))

\* C8: for g not the zero polynomial, f = g * q + r for the pair (q, r) that
\* divmod, or the operators / and %, return.
C8_DivisionIdentity ==
    (pc = "divided" /\ ~IsZero(other.pars)) =>
       SamePolynomial(self, operator_plus(operator_times(other, obs.val[1]), obs.val[2]))

\* f % g and f / g with neither of them zero
C8_Witness ==
    /\ pc = "divided"
    /\ obs.op = "operators"
    /\ degree(other) >= 1
    /\ ~IsZero(obs.val[1].pars)
    /\ ~IsZero(obs.val[2].pars)
    /\ degree(obs.val[1]) >= 1

\* C9: dividing by the zero polynomial, or by a g of larger degree, gives the
\* zero polynomial for q and the dividend itself for r.
C9_DegenerateDivision ==
    (pc = "divided" /\ (IsZero(other.pars) \/ degree(other) > degree(self))) =>
       /\ IsZero(obs.val[1].pars)
       /\ obs.val[2] = self

\* a polynomial that is not zero divided by the zero polynomial
C9_Witness ==
    /\ pc = "divided"
    /\ obs.op = "divmod"
    /\ IsZero(other.pars)
    /\ ~IsZero(self.pars)
    /\ obs.val[2] = self

InDomain(b, x) == RLe(b.xmin, x) /\ RLe(x, b.xmax)

\* C10: p.elevate ( r ) has degree N + r , the interval of p , and the value of
\* p at every point of the interval.
C10_ElevationPreservesFunction ==
    pc = "elevated" =>
       /\ degree(obs.val) = degree(self) + obs.x
       /\ obs.val.xmin = self.xmin
       /\ obs.val.xmax = self.xmax
       /\ \A x \in Points : InDomain(self, x) => evaluate(obs.val, x) = evaluate(self, x)

\* a polynomial of degree 2 that is not constant, raised by 2
C10_Witness ==
    /\ pc = "elevated"
    /\ obs.x = 2
    /\ degree(self) = 2
    /\ self.pars[1] # self.pars[2]
    /\ \E x \in Points : InDomain(self, x) /\ evaluate(self, x) # R(0)

(***************************************************************************)
(* Calculus.  derivative, indefinite_integral and integral are defined in  *)
(* Bernstein.cpp; they follow the identities the specification gives.      *)
(***************************************************************************)
\* the differences of the coefficients with no provision for degree 0
derivative_short(b) ==
    [b EXCEPT !.pars = [k \in 1..degree(b) |->
                          RDiv(RMul(R(degree(b)), RSub(b.pars[k + 1], b.pars[k])),
                               RSub(b.xmax, b.xmin))]]

\* the derivative without the factor 1 / ( xmax - xmin )
derivative_unscaled(b) ==
    [pars |-> IF degree(b) = 0 THEN <<R(0)>>
              ELSE [k \in 1..degree(b) |->
                      RMul(R(degree(b)), RSub(b.pars[k + 1], b.pars[k]))],
     xmin |-> b.xmin, xmax |-> b.xmax]

\* Bernstein derivative () const: d_k = N ( c_{k+1} - c_k ) / ( xmax - xmin ),
\* the zero constant for a polynomial of degree 0
derivative(b) ==
    [pars |-> IF degree(b) = 0 THEN <<R(0)>>
              ELSE [k \in 1..degree(b) |->
                      RDiv(RMul(R(degree(b)), RSub(b.pars[k + 1], b.pars[k])),
                           RSub(b.xmax, b.xmin))],
     xmin |-> b.xmin, xmax |-> b.xmax]

\* the coefficients of the indefinite integral from the one after c_k on: each
\* is the one before it plus the next coefficient times the scale
RECURSIVE RunningSums(_, _, _, _)
RunningSums(pars, scale, k, last) ==
    IF k > Len(pars) THEN <<>>
    ELSE <<RAdd(last, RMul(scale, pars[k]))>>
         \o RunningSums(pars, scale, k + 1, RAdd(last, RMul(scale, pars[k])))

\* Bernstein indefinite_integral ( C ): degree N + 1, the running sums of the
\* coefficients scaled by ( xmax - xmin ) / ( N + 1 ) and offset by C
indefinite_integral(b, C) ==
    [pars |-> <<C>> \o RunningSums(b.pars, RDiv(RSub(b.xmax, b.xmin), R(degree(b) + 1)), 1, C),
     xmin |-> b.xmin, xmax |-> b.xmax]

\* a bound brought into [xmin,xmax]
Clamp(b, x) ==
    IF RLt(x, b.xmin) THEN b.xmin ELSE IF RLt(b.xmax, x) THEN b.xmax ELSE x

\* the difference of the calls of the indefinite integral at the bounds as given
integral_unclamped(b, low, high) ==
    RSub(operator_call(indefinite_integral(b, R(0)), high),
         operator_call(indefinite_integral(b, R(0)), low))

\* double integral ( low , high ): the indefinite integral at the clamped
\* bounds, subtracted
integral_between(b, low, high) ==
    RSub(evaluate(indefinite_integral(b, R(0)), Clamp(b, high)),
         evaluate(indefinite_integral(b, R(0)), Clamp(b, low)))

\* double integral (): between xmin and xmax
integral(b) == integral_between(b, b.xmin, b.xmax)

(***************************************************************************)
(* SpecCalc: a polynomial on a proper interval is differentiated and       *)
(* integrated.                                                             *)
(***************************************************************************)
\* integration bounds: below, on, inside and above the interval
Limits == {R(i) : i \in -1..(MaxAbs + 1)}

\* derivative and integral are linear in the coefficients, which are 0 or 1;
\* the interval is a proper one
CalcInputs(h) ==
    \E pars \in SeqsOf(Ordinates, 0, MaxPts), a \in Abscissas, b \in Abscissas :
       /\ RLt(a, b)
       /\ h = Made("range", <<>>, pars, a, b, 0, "one")

InitCalc ==
    /\ pc = "start"
    /\ self = NoInstance
    /\ other = NoInstance
    /\ obs = Seen("none", R(0), R(0))
    /\ CalcInputs(how)

\* p.derivative().indefinite_integral ( p ( p.xmin() ) )
RoundTrip ==
    /\ pc = "built"
    /\ obs' = Seen("roundtrip", operator_call(self, self.xmin),
                   indefinite_integral(derivative(self), operator_call(self, self.xmin)))
    /\ pc' = "integrated"
    /\ UNCHANGED <<self, other, how>>

\* p.integral ()
Integrate ==
    /\ pc = "built"
    /\ obs' = Seen("integral", <<self.xmin, self.xmax>>, integral(self))
    /\ pc' = "integrated"
    /\ UNCHANGED <<self, other, how>>

\* p.integral ( low , high )
Integrate_between ==
    /\ pc = "built"
    /\ \E low \in Limits, high \in Limits :
          obs' = Seen("between", <<low, high>>, integral_between(self, low, high))
    /\ pc' = "integrated"
    /\ UNCHANGED <<self, other, how>>

NextCalc ==
    \/ Construct_range
    \/ RoundTrip
    \/ Integrate
    \/ Integrate_between

SpecCalc == InitCalc /\ [][NextCalc]_vars

\* C11: for a polynomial p of degree N >= 1, the indefinite integral of its
\* derivative with the constant p ( xmin ) has degree N, the interval of p and
\* the coefficients of p.
C11_DerivativeIntegralRoundTrip ==
    (pc = "integrated" /\ obs.op = "roundtrip" /\ degree(self) >= 1) =>
       /\ degree(obs.val) = degree(self)
       /\ obs.val = self

\* a polynomial of degree 2 whose coefficients go down and up, on an interval
\* of width 2, is restored
C11_Witness ==
    /\ pc = "integrated"
    /\ obs.op = "roundtrip"
    /\ degree(self) = 2
    /\ self.pars[1] # self.pars[2]
    /\ self.pars[2] # self.pars[3]
    /\ self.pars[1] # R(0)
    /\ RSub(self.xmax, self.xmin) = R(2)
    /\ obs.val = self

\* the indefinite integral with constant 0, called at x
Primitive(x) == operator_call(indefinite_integral(self, R(0)), x)

\* C12: integral () is the indefinite integral called at xmax minus the one
\* called at xmin; integral ( low , high ) is the same difference at low and
\* high brought into [xmin,xmax], hence integral () when low <= xmin and
\* high >= xmax.
C12_IntegralIsPrimitiveDifference ==
    /\ (pc = "integrated" /\ obs.op = "integral") =>
          REq(obs.val, RSub(Primitive(self.xmax), Primitive(self.xmin)))
    /\ (pc = "integrated" /\ obs.op = "between") =>
          /\ REq(obs.val, RSub(Primitive(RMax(self.xmin, RMin(obs.x[2], self.xmax))),
                               Primitive(RMax(self.xmin, RMin(obs.x[1], self.xmax)))))
          /\ (RLe(obs.x[1], self.xmin) /\ RLe(self.xmax, obs.x[2])) =>
                REq(obs.val, integral(self))

\* bounds outside the interval on both sides give the whole integral, not zero
C12_Witness ==
    /\ pc = "integrated"
    /\ obs.op = "between"
    /\ RLt(obs.x[1], self.xmin)
    /\ RLt(self.xmax, obs.x[2])
    /\ obs.val # R(0)
    /\ obs.val = integral(self)
    /\ degree(self) >= 1

(***************************************************************************)
(* Operations on the coefficients: norm, sign_changes, the shift by a      *)
(* constant.  norm, sign_changes and operator+= are defined in             *)
(* Bernstein.cpp; they follow the specification.                           *)
(***************************************************************************)
RAbs(a) == IF RLt(a, R(0)) THEN RNeg(a) ELSE a

\* the largest | c_k | of the first k coefficients
RECURSIVE NormMax(_, _)
NormMax(pars, k) ==
    IF k = 0 THEN R(0) ELSE RMax(NormMax(pars, k - 1), RAbs(pars[k]))

\* the sum of | c_k | over the first k coefficients
RECURSIVE NormSum(_, _)
NormSum(pars, k) ==
    IF k = 0 THEN R(0) ELSE RAdd(NormSum(pars, k - 1), RAbs(pars[k]))

\* the sum of c_k^2 over the first k coefficients
RECURSIVE NormSquares(_, _)
NormSquares(pars, k) ==
    IF k = 0 THEN R(0) ELSE RAdd(NormSquares(pars, k - 1), RMul(pars[k], pars[k]))

\* std::sqrt of a number that is not negative, kept exactly as the number under
\* the root; the order of two roots is the order of what is under them
Root(r) == [square |-> r]

RootLe(u, v) == RLe(u.square, v.square)

\* the norm with the cases q_inv = 0 and q_inv = 1 exchanged
norm_exchanged(b, q_inv) ==
    IF q_inv = R(1)
    THEN Root(RMul(NormMax(b.pars, Len(b.pars)), NormMax(b.pars, Len(b.pars))))
    ELSE IF q_inv = Frac(1, 2) THEN Root(NormSquares(b.pars, Len(b.pars)))
    ELSE Root(RMul(NormSum(b.pars, Len(b.pars)), NormSum(b.pars, Len(b.pars))))

\* double norm ( q_inv ): max | c_k | for 0, sqrt ( sum c_k^2 ) for 0.5,
\* sum | c_k | for 1
norm(b, q_inv) ==
    IF q_inv = R(0)
    THEN Root(RMul(NormMax(b.pars, Len(b.pars)), NormMax(b.pars, Len(b.pars))))
    ELSE IF q_inv = Frac(1, 2) THEN Root(NormSquares(b.pars, Len(b.pars)))
    ELSE Root(RMul(NormSum(b.pars, Len(b.pars)), NormSum(b.pars, Len(b.pars))))

\* sign changes from coefficient i on; last is the sign of the last coefficient
\* seen that is not zero, 0 when there is none yet
RECURSIVE SignChangesFrom(_, _, _)
SignChangesFrom(pars, i, last) ==
    IF i > Len(pars) THEN 0
    ELSE IF Sgn(pars[i][1]) = 0 THEN SignChangesFrom(pars, i + 1, last)
    ELSE (IF last # 0 /\ Sgn(pars[i][1]) # last THEN 1 ELSE 0)
         + SignChangesFrom(pars, i + 1, Sgn(pars[i][1]))

\* neighbours of opposite sign only: a zero between them hides the change
sign_changes_adjacent(b) ==
    Cardinality({i \in 1..(Len(b.pars) - 1) :
                    Sgn(b.pars[i][1]) * Sgn(b.pars[i + 1][1]) < 0})

\* unsigned short sign_changes ( const Bernstein& b )
sign_changes(b) == SignChangesFrom(b.pars, 1, 0)

\* the constant added to the first coefficient only
operator_plus_assign_first(b, a) ==
    [b EXCEPT !.pars = [k \in 1..Len(b.pars) |->
                          IF k = 1 THEN RAdd(b.pars[k], a) ELSE b.pars[k]]]

\* Bernstein& operator += ( const double a ): shift it
operator_plus_assign(b, a) ==
    [b EXCEPT !.pars = [k \in 1..Len(b.pars) |-> RAdd(b.pars[k], a)]]

\* operator+ ( const Bernstein& p , const double v ): Bernstein ( p ) += v
operator_plus_double(p, v) == operator_plus_assign(p, v)

\* operator+ ( const double v , const Bernstein& p ): p + v
double_plus_operator(v, p) == operator_plus_double(p, v)

(***************************************************************************)
(* SpecCoef: the norms, the sign changes and the shift of one polynomial.  *)
(***************************************************************************)
\* the polynomials of the concrete scenarios
ScenarioInputs(h) ==
    \/ h = Made("range", <<>>, <<R(1), R(-1), R(1), R(-1)>>, R(0), R(1), 0, "one")
    \/ h = Made("range", <<>>, <<R(1), R(1)>>, R(0), R(1), 0, "one")

InitCoef ==
    /\ pc = "start"
    /\ self = NoInstance
    /\ other = NoInstance
    /\ obs = Seen("none", R(0), R(0))
    /\ \/ RangeInputs(how)
       \/ ScenarioInputs(how)

\* p.norm ( 0 ) , p.norm ( 0.5 ) , p.norm ( 1 )
Norms ==
    /\ pc = "built"
    /\ obs' = Seen("norms", R(0),
                   <<norm(self, R(0)), norm(self, Frac(1, 2)), norm(self, R(1))>>)
    /\ pc' = "done"
    /\ UNCHANGED <<self, other, how>>

\* sign_changes ( p )
SignChanges ==
    /\ pc = "built"
    /\ obs' = Seen("sign_changes", R(0), sign_changes(self))
    /\ pc' = "done"
    /\ UNCHANGED <<self, other, how>>

\* p + v and v + p
AddScalar ==
    /\ pc = "built"
    /\ \E v \in Coefficients :
          obs' = Seen("plus", v, <<operator_plus_double(self, v), double_plus_operator(v, self)>>)
    /\ pc' = "done"
    /\ UNCHANGED <<self, other, how>>

NextCoef ==
    \/ Construct_range
    \/ Norms
    \/ SignChanges
    \/ AddScalar

SpecCoef == InitCoef /\ [][NextCoef]_vars

\* C13: for a polynomial that is not zero, norm ( 0 ) <= norm ( 0.5 ) <= norm ( 1 ),
\* with norm ( 0 ) the largest | c_k |, norm ( 0.5 ) the root of the sum of the
\* c_k^2 and norm ( 1 ) the sum of the | c_k |.
C13_NormsOrdered ==
    (pc = "done" /\ obs.op = "norms" /\ ~IsZero(self.pars)) =>
       /\ RootLe(obs.val[1], obs.val[2])
       /\ RootLe(obs.val[2], obs.val[3])
       /\ \E k \in DOMAIN self.pars : obs.val[1].square = RMul(self.pars[k], self.pars[k])
       /\ \A k \in DOMAIN self.pars : RLe(RMul(self.pars[k], self.pars[k]), obs.val[1].square)
       /\ obs.val[2].square = RSum(LAMBDA k : RMul(self.pars[k], self.pars[k]), 1, Len(self.pars))
       /\ obs.val[3].square = RMul(RSum(LAMBDA k : RAbs(self.pars[k]), 1, Len(self.pars)),
                                   RSum(LAMBDA k : RAbs(self.pars[k]), 1, Len(self.pars)))

\* coefficients of both signs: the three norms differ
C13_Witness ==
    /\ pc = "done"
    /\ obs.op = "norms"
    /\ \E k \in DOMAIN self.pars : RLt(self.pars[k], R(0))
    /\ \E k \in DOMAIN self.pars : RLt(R(0), self.pars[k])
    /\ RootLe(obs.val[1], obs.val[2]) /\ ~RootLe(obs.val[2], obs.val[1])
    /\ RootLe(obs.val[2], obs.val[3]) /\ ~RootLe(obs.val[3], obs.val[2])

\* the coefficients that are not zero, in their order
NonZero(pars) == SelectSeq(pars, LAMBDA c : c # R(0))

\* the neighbours of opposite sign in a sequence without zeros
OppositePairs(nz) == {i \in 1..(Len(nz) - 1) : Sgn(nz[i][1]) # Sgn(nz[i + 1][1])}

\* C14: sign_changes ( b ) is the number of neighbours of opposite sign among
\* the coefficients that are not zero; it is at most the degree, and 3 for the
\* coefficients [1,-1,1,-1].
C14_SignChangesCounted ==
    (pc = "done" /\ obs.op = "sign_changes") =>
       /\ obs.val = Cardinality(OppositePairs(NonZero(self.pars)))
       /\ obs.val <= degree(self)
       /\ self.pars = <<R(1), R(-1), R(1), R(-1)>> => obs.val = 3

\* a change of sign across a zero coefficient is counted
C14_Witness ==
    /\ pc = "done"
    /\ obs.op = "sign_changes"
    /\ self.pars = <<R(1), R(0), R(-1)>>
    /\ obs.val = 1

\* the sum r is p shifted by v
Shifted(r, p, v) ==
    /\ degree(r) = degree(p)
    /\ r.xmin = p.xmin
    /\ r.xmax = p.xmax
    /\ \A k \in DOMAIN p.pars : r.pars[k] = RAdd(p.pars[k], v)

\* C15: p + v and v + p have the degree and the interval of p and the
\* coefficients c_k + v, and p is what it was; Bernstein ( [1,1] , 0 , 1 ) + 1
\* has the coefficients [2,2] and the value 2 at 0.5.
C15_ScalarShift ==
    (pc = "done" /\ obs.op = "plus") =>
       /\ Shifted(obs.val[1], self, obs.x)
       /\ Shifted(obs.val[2], self, obs.x)
       /\ self = Bernstein_range(how.ys, how.a, how.b)
       /\ (how.ys = <<R(1), R(1)>> /\ how.a = R(0) /\ how.b = R(1) /\ obs.x = R(1)) =>
             /\ obs.val[1].pars = <<R(2), R(2)>>
             /\ operator_call(obs.val[1], Frac(1, 2)) = R(2)

\* the scenario itself
C15_Witness ==
    /\ pc = "done"
    /\ obs.op = "plus"
    /\ self = [pars |-> <<R(1), R(1)>>, xmin |-> R(0), xmax |-> R(1)]
    /\ obs.x = R(1)
    /\ obs.val[1].pars = <<R(2), R(2)>>

(***************************************************************************)
(* SpecEval: an interpolant of the samples of x^2, or one basic            *)
(* polynomial, is built and called.                                        *)
(***************************************************************************)
\* helper structure to denote the basic Bernstein polynomial B(k,N)
Basic(k, N) == [k |-> k, N |-> N]

\* the coefficient N - k set instead of the coefficient k
Bernstein_basic_mirrored(basic, xmin, xmax) ==
    [pars |-> [i \in 1..(basic.N + 1) |-> IF i = basic.N - basic.k + 1 THEN R(1) ELSE R(0)],
     xmin |-> RMin(xmin, xmax), xmax |-> RMax(xmin, xmax)]

\* Bernstein ( const Basic& basic , xmin , xmax ), defined in Bernstein.cpp:
\* N + 1 coefficients, all zero except coefficient k, which is 1
Bernstein_basic(basic, xmin, xmax) ==
    [pars |-> [i \in 1..(basic.N + 1) |-> IF i = basic.k + 1 THEN R(1) ELSE R(0)],
     xmin |-> RMin(xmin, xmax), xmax |-> RMax(xmin, xmax)]

\* pairwise distinct abscissas with their squares on a proper interval
SquareInputs(h) ==
    \E xs \in SeqsOf(Abscissas, 1, MaxPts), a \in Abscissas, b \in Abscissas :
       /\ Distinct(xs)
       /\ RLt(a, b)
       /\ h = Made("interpolant", xs, [i \in DOMAIN xs |-> RMul(xs[i], xs[i])], a, b, 0, "sq")

\* a basic polynomial B(k,N), k <= N, with interval edges in either order
BasicInputs(h) ==
    \E N \in 0..MaxBasic, a \in Abscissas, b \in Abscissas :
       \E k \in 0..N : h = Made("basic", Basic(k, N), <<>>, a, b, N, "one")

InitEval ==
    /\ pc = "start"
    /\ self = NoInstance
    /\ other = NoInstance
    /\ obs = Seen("none", R(0), R(0))
    /\ \/ SquareInputs(how)
       \/ BasicInputs(how)

\* Bernstein ( Basic ( k , N ) , xmin , xmax )
Construct_basic ==
    /\ pc = "start"
    /\ how.ctor = "basic"
    /\ self' = Bernstein_basic(how.xs, how.a, how.b)
    /\ pc' = "built"
    /\ UNCHANGED <<other, how, obs>>

NextEval ==
    \/ Construct_interpolant
    \/ Construct_basic
    \/ Call

SpecEval == InitEval /\ [][NextEval]_vars

\* C16: the interpolant of three or more samples of x^2 has the value x^2 at
\* every point of its interval; the one of (0,0),(1,1),(2,4) on [0,2] has
\* degree 2 and the value 2.25 at 1.5.
C16_InterpolatesSquare ==
    /\ (pc = "called" /\ how.func = "sq" /\ Len(how.xs) >= 3 /\ InDomain(self, obs.x)) =>
          obs.val = RMul(obs.x, obs.x)
    /\ (pc = "called" /\ how.func = "sq" /\ how.xs = <<R(0), R(1), R(2)>> /\ how.ys = <<R(0), R(1), R(4)>>
          /\ how.a = R(0) /\ how.b = R(2)) =>
          /\ degree(self) = 2
          /\ obs.x = Frac(3, 2) => obs.val = Frac(9, 4)

\* the scenario called at 1.5
C16_Witness ==
    /\ pc = "called"
    /\ how.func = "sq"
    /\ how.xs = <<R(0), R(1), R(2)>>
    /\ how.ys = <<R(0), R(1), R(4)>>
    /\ self.xmin = R(0)
    /\ self.xmax = R(2)
    /\ obs.x = Frac(3, 2)
    /\ obs.val = Frac(9, 4)

\* the power a^n of a number
RECURSIVE RPow(_, _)
RPow(a, n) == IF n = 0 THEN R(1) ELSE RMul(a, RPow(a, n - 1))

\* C(N,k) t^k (1-t)^(N-k)
BasicValue(k, N, t) ==
    RMul(R(Binomial(N, k)), RMul(RPow(t, k), RPow(RSub(R(1), t), N - k)))

\* C17: the polynomial of Basic ( k , N ), k <= N, has N + 1 coefficients, all
\* zero except coefficient k, which is 1, and the value C(N,k) t^k (1-t)^(N-k);
\* Basic ( 2 , 4 ) on [0,1] has the value 0.375 at 0.5.
C17_BasicPolynomial ==
    /\ (pc \in {"built", "called"} /\ how.ctor = "basic") =>
          /\ Len(self.pars) = how.N + 1
          /\ \A i \in 0..how.N : self.pars[i + 1] = (IF i = how.xs.k THEN R(1) ELSE R(0))
    /\ (pc = "called" /\ how.ctor = "basic" /\ InDomain(self, obs.x)) =>
          obs.val = BasicValue(how.xs.k, how.N, Bernstein_t(self, obs.x))
    /\ (pc = "called" /\ how.ctor = "basic" /\ how.xs = Basic(2, 4)
          /\ self.xmin = R(0) /\ self.xmax = R(1) /\ obs.x = Frac(1, 2)) =>
          obs.val = Frac(3, 8)

\* the scenario called at 0.5
C17_Witness ==
    /\ pc = "called"
    /\ how.ctor = "basic"
    /\ how.xs = Basic(2, 4)
    /\ self.xmin = R(0)
    /\ self.xmax = R(1)
    /\ obs.x = Frac(1, 2)
    /\ obs.val = Frac(3, 8)

(***************************************************************************)
(* SpecDual: a BernsteinDualBasis is called.  Its constructor is defined   *)
(* in Bernstein.cpp: the polynomial it stores is left free here, of any    *)
(* degree N and with any index k, also k > N.                              *)
(***************************************************************************)
\* the members m_k and m_bernstein
BernsteinDualBasis(k, bernstein_) == [k |-> k, bernstein |-> bernstein_]

\* unsigned short N () const { return m_bernstein.degree() ; }
BernsteinDualBasis_N(d) == degree(d.bernstein)

\* the index N itself taken for too large
BernsteinDualBasis_call_strict(d, x) ==
    IF d.k < BernsteinDualBasis_N(d) THEN operator_call(d.bernstein, x) ELSE R(0)

\* double operator() ( const double x ) const
BernsteinDualBasis_call(d, x) ==
    IF d.k <= BernsteinDualBasis_N(d) THEN operator_call(d.bernstein, x) ELSE R(0)

DualInputs(h) ==
    \E pars \in SeqsOf(Ordinates, 1, MaxPts), k \in 0..MaxPts, a \in Abscissas, b \in Abscissas :
       h = Made("dual", <<>>, pars, a, b, k, "one")

InitDual ==
    /\ pc = "start"
    /\ self = NoInstance
    /\ other = NoInstance
    /\ obs = Seen("none", R(0), R(0))
    /\ DualInputs(how)

Construct_dual ==
    /\ pc = "start"
    /\ how.ctor = "dual"
    /\ other' = BernsteinDualBasis(how.N, Bernstein_range(how.ys, how.a, how.b))
    /\ pc' = "built"
    /\ UNCHANGED <<self, how, obs>>

\* d ( x )
Call_dual ==
    /\ pc = "built"
    /\ \E x \in Points : obs' = Seen("call", x, BernsteinDualBasis_call(other, x))
    /\ pc' = "called"
    /\ UNCHANGED <<self, other, how>>

NextDual ==
    \/ Construct_dual
    \/ Call_dual

SpecDual == InitDual /\ [][NextDual]_vars

\* C18: a dual basis function with k > N () is 0 at every x; with k <= N () its
\* value is the call of the stored polynomial, so 0 outside its interval.
C18_DualBasisCall ==
    pc = "called" =>
       /\ other.k > degree(other.bernstein) => obs.val = R(0)
       /\ other.k <= degree(other.bernstein) =>
             /\ obs.val = operator_call(other.bernstein, obs.x)
             /\ (RLt(obs.x, other.bernstein.xmin) \/ RLt(other.bernstein.xmax, obs.x)) =>
                   obs.val = R(0)

\* k = N: the stored polynomial is called and is not zero there
C18_Witness ==
    /\ pc = "called"
    /\ other.k = degree(other.bernstein)
    /\ other.k >= 1
    /\ obs.val # R(0)
    /\ obs.val = evaluate(other.bernstein, obs.x)

\* the middle of the interval as lobatto is given it
Middle == RDiv(RAdd(how.a, how.b), R(2))

\* C19: lobatto ( func , 0 , xmin , xmax ) is the polynomial of degree 0 whose
\* coefficient is func ( ( xmin + xmax ) / 2 ); func is called at that one point.
C19_LobattoZero ==
    (Built("lobatto") /\ how.N = 0) =>
       /\ degree(self) = 0
       /\ self.pars = <<Apply(how.func, Middle)>>
       /\ how.xs = <<Middle>>

\* the square of a middle that is neither 0 nor 1
C19_Witness ==
    /\ Built("lobatto")
    /\ how.N = 0
    /\ how.func = "sq"
    /\ how.a # how.b
    /\ self.pars = <<RMul(Middle, Middle)>>
    /\ self.pars[1] # Middle

(***************************************************************************)
(* SpecMap: the conversions between the global and the local variable.     *)
(***************************************************************************)
\* p.t ( v )
ToLocal ==
    /\ pc = "built"
    /\ \E v \in Points : obs' = Seen("t", v, Bernstein_t(self, v))
    /\ pc' = "mapped"
    /\ UNCHANGED <<self, other, how>>

\* p.x ( u )
ToGlobal ==
    /\ pc = "built"
    /\ \E u \in Points : obs' = Seen("x", u, Bernstein_x(self, u))
    /\ pc' = "mapped"
    /\ UNCHANGED <<self, other, how>>

NextMap ==
    \/ Construct_range
    \/ ToLocal
    \/ ToGlobal

SpecMap == InitCall /\ [][NextMap]_vars

\* C20: with xmin < xmax, x ( t ( v ) ) = v and t ( x ( u ) ) = u, and
\* t ( xmin ) = 0, t ( xmax ) = 1, x ( 0 ) = xmin, x ( 1 ) = xmax.
C20_MapsAreInverse ==
    (pc = "mapped" /\ RLt(self.xmin, self.xmax)) =>
       /\ obs.op = "t" =>
             /\ Bernstein_x(self, obs.val) = obs.x
             /\ obs.x = self.xmin => obs.val = R(0)
             /\ obs.x = self.xmax => obs.val = R(1)
       /\ obs.op = "x" =>
             /\ Bernstein_t(self, obs.val) = obs.x
             /\ obs.x = R(0) => obs.val = self.xmin
             /\ obs.x = R(1) => obs.val = self.xmax

\* a point strictly inside an interval that does not start at 0
C20_Witness ==
    /\ pc = "mapped"
    /\ obs.op = "t"
    /\ self.xmin = R(1)
    /\ self.xmax = R(2)
    /\ RLt(R(0), obs.val)
    /\ RLt(obs.val, R(1))
    /\ Bernstein_x(self, obs.val) = obs.x

(***************************************************************************)
(* SpecBasic: a Basic selector is made and its members are read.           *)
(***************************************************************************)
\* explicit Basic ( const unsigned short k = 0 , const unsigned short N = 0 ):
\* both members are stored as given, an argument left out is 0
Basic_ctor(args) ==
    Basic(IF Len(args) >= 1 THEN args[1] ELSE 0, IF Len(args) >= 2 THEN args[2] ELSE 0)

\* Basic () , Basic ( k ) and Basic ( k , N )
SelectorInputs(h) ==
    \E args \in SeqsOf(0..MaxBasic, 0, 2) :
       h = Made("selector", args, <<>>, R(0), R(1), 0, "one")

InitBasic ==
    /\ pc = "start"
    /\ self = NoInstance
    /\ other = NoInstance
    /\ obs = Seen("none", R(0), R(0))
    /\ SelectorInputs(how)

Construct_selector ==
    /\ pc = "start"
    /\ how.ctor = "selector"
    /\ other' = Basic_ctor(how.xs)
    /\ pc' = "built"
    /\ UNCHANGED <<self, how, obs>>

\* unsigned short k () const
Read_k ==
    /\ pc = "built"
    /\ obs' = Seen("k", R(0), other.k)
    /\ pc' = "read"
    /\ UNCHANGED <<self, other, how>>

\* unsigned short N () const
Read_N ==
    /\ pc = "built"
    /\ obs' = Seen("N", R(0), other.N)
    /\ pc' = "read"
    /\ UNCHANGED <<self, other, how>>

NextBasic ==
    \/ Construct_selector
    \/ Read_k
    \/ Read_N

SpecBasic == InitBasic /\ [][NextBasic]_vars

\* C21: every Basic selector has k () <= N ().
C21_BasicIndexBounded ==
    pc \in {"built", "read"} => other.k <= other.N

(***************************************************************************)
(* The operations that change an instance in place.  Their bodies are in   *)
(* Bernstein.cpp; the header declares them (322-338, 370-377, 415,         *)
(* 443-448).                                                               *)
(***************************************************************************)
\* Bernstein& operator -= ( const double a ): shift it
operator_minus_assign(b, a) ==
    [b EXCEPT !.pars = [k \in 1..Len(b.pars) |-> RSub(b.pars[k], a)]]

\* Bernstein& operator *= ( const double a ): scale it
operator_times_assign(b, a) ==
    [b EXCEPT !.pars = [k \in 1..Len(b.pars) |-> RMul(b.pars[k], a)]]

\* Bernstein& operator /= ( const double a ): scale it
operator_div_assign(b, a) ==
    [b EXCEPT !.pars = [k \in 1..Len(b.pars) |-> RDiv(b.pars[k], a)]]

\* Bernstein& operator= ( const double right ): the constant on the same interval
operator_assign_double(b, right) ==
    [b EXCEPT !.pars = [k \in 1..Len(b.pars) |-> right]]

\* an assignment that copies the coefficients only
operator_assign_pars(b, right) == [b EXCEPT !.pars = right.pars]

\* copy and move assignment: the instance becomes a copy of right, its
\* members m_xmin and m_xmax included
operator_assign(b, right) == right

\* void swap ( Bernstein& right ): the two polynomials change places
swap(b, right) == <<right, b>>

\* is the term c very small?  It is numerically zero, or below epsilon, or lost
\* when added to scale ( scale > 0 ) or to the norm ( scale <= 0 ).  For the
\* numbers of this model a sum x + c == x in double precision only when c == 0.
Small(c, epsilon, scale, n) ==
    \/ c = R(0)
    \/ RLt(R(0), epsilon) /\ RLt(RAbs(c), epsilon)
    \/ RLt(R(0), scale) /\ REq(RAdd(scale, c), scale)
    \/ ~RLt(R(0), scale) /\ REq(RAdd(n, c), n)

\* the terms at or below epsilon taken for small
remove_noise_closed(b, epsilon, scale) ==
    [b   |-> [b EXCEPT !.pars = [k \in 1..Len(b.pars) |->
                 IF RLe(RAbs(b.pars[k]), epsilon) THEN R(0) ELSE b.pars[k]]],
     num |-> Cardinality({k \in 1..Len(b.pars) : RLe(RAbs(b.pars[k]), epsilon)})]

\* unsigned short remove_noise ( epsilon , scale ): the polynomial with its
\* small terms nullified, and their number
remove_noise(b, epsilon, scale) ==
    [b   |-> [b EXCEPT !.pars = [k \in 1..Len(b.pars) |->
                 IF Small(b.pars[k], epsilon, scale, NormMax(b.pars, Len(b.pars)))
                 THEN R(0) ELSE b.pars[k]]],
     num |-> Cardinality({k \in 1..Len(b.pars) :
                 Small(b.pars[k], epsilon, scale, NormMax(b.pars, Len(b.pars)))})]

(***************************************************************************)
(* SpecFrame: two instances are built, the second on [0,1], and up to      *)
(* MaxOps operations are applied in place to the first.                    *)
(***************************************************************************)
\* what the last operation was: its argument, what it returned, the instance
\* before it, and the number of operations so far
Done(op, x, val, before, n) == [op |-> op, x |-> x, val |-> val, before |-> before, n |-> n]

FrameInputs(h) ==
    \E pars \in SeqsOf(Coefficients, 2, 2), a \in Abscissas :
       h = Made("two", <<R(1)>>, pars, a, RAdd(a, R(1)), 0, "one")

\* the scalar of the compound assignments, and the arguments of remove_noise
Scalars == {R(2)}

Epsilons == {R(0), R(1), R(2)}

Scales == {R(0), R(1)}

InitFrame ==
    /\ pc = "start"
    /\ self = NoInstance
    /\ other = NoInstance
    /\ obs = Done("none", R(0), R(0), NoInstance, 0)
    /\ FrameInputs(how)

Construct_two ==
    /\ pc = "start"
    /\ how.ctor = "two"
    /\ self' = Bernstein_range(how.ys, how.a, how.b)
    /\ other' = Bernstein_range(how.xs, R(0), R(1))
    /\ pc' = "built"
    /\ UNCHANGED <<how, obs>>

PlusAssign ==
    /\ pc = "built" /\ obs.n < MaxOps
    /\ \E a \in Scalars :
          /\ self' = operator_plus_assign(self, a)
          /\ obs' = Done("+=", a, R(0), self, obs.n + 1)
    /\ UNCHANGED <<pc, other, how>>

MinusAssign ==
    /\ pc = "built" /\ obs.n < MaxOps
    /\ \E a \in Scalars :
          /\ self' = operator_minus_assign(self, a)
          /\ obs' = Done("-=", a, R(0), self, obs.n + 1)
    /\ UNCHANGED <<pc, other, how>>

TimesAssign ==
    /\ pc = "built" /\ obs.n < MaxOps
    /\ \E a \in Scalars :
          /\ self' = operator_times_assign(self, a)
          /\ obs' = Done("*=", a, R(0), self, obs.n + 1)
    /\ UNCHANGED <<pc, other, how>>

DivAssign ==
    /\ pc = "built" /\ obs.n < MaxOps
    /\ \E a \in Scalars :
          /\ self' = operator_div_assign(self, a)
          /\ obs' = Done("/=", a, R(0), self, obs.n + 1)
    /\ UNCHANGED <<pc, other, how>>

AssignDouble ==
    /\ pc = "built" /\ obs.n < MaxOps
    /\ \E a \in Scalars :
          /\ self' = operator_assign_double(self, a)
          /\ obs' = Done("=double", a, R(0), self, obs.n + 1)
    /\ UNCHANGED <<pc, other, how>>

Assign ==
    /\ pc = "built" /\ obs.n < MaxOps
    /\ self' = operator_assign(self, other)
    /\ obs' = Done("=", other, R(0), self, obs.n + 1)
    /\ UNCHANGED <<pc, other, how>>

Swap ==
    /\ pc = "built" /\ obs.n < MaxOps
    /\ self' = swap(self, other)[1]
    /\ other' = swap(self, other)[2]
    /\ obs' = Done("swap", other, R(0), self, obs.n + 1)
    /\ UNCHANGED <<pc, how>>

RemoveNoise ==
    /\ pc = "built" /\ obs.n < MaxOps
    /\ \E epsilon \in Epsilons, scale \in Scales :
          /\ self' = remove_noise(self, epsilon, scale).b
          /\ obs' = Done("remove_noise", <<epsilon, scale>>,
                         remove_noise(self, epsilon, scale).num, self, obs.n + 1)
    /\ UNCHANGED <<pc, other, how>>

NextFrame ==
    \/ Construct_two
    \/ PlusAssign
    \/ MinusAssign
    \/ TimesAssign
    \/ DivAssign
    \/ AssignDouble
    \/ Assign
    \/ Swap
    \/ RemoveNoise

SpecFrame == InitFrame /\ [][NextFrame]_vars

Noise(pars, epsilon, scale) ==
    {k \in 1..Len(pars) :
        \/ pars[k] = R(0)
        \/ RLt(R(0), epsilon) /\ RLt(RAbs(pars[k]), epsilon)
        \/ RLt(R(0), scale) /\ RAdd(scale, pars[k]) = scale
        \/ RLe(scale, R(0)) /\
              RAdd(NormMax(pars, Len(pars)), pars[k]) = NormMax(pars, Len(pars))}

\* C24: remove_noise ( epsilon , scale ) with epsilon > 0 zeroes every
\* coefficient below epsilon in absolute value, leaves the coefficients that meet
\* no smallness condition as they were, keeps degree and interval, returns the
\* number of zeroed coefficients, and a second call changes nothing.
C24_RemoveNoise ==
    (pc = "built" /\ obs.op = "remove_noise" /\ RLt(R(0), obs.x[1])) =>
       /\ \A k \in 1..Len(obs.before.pars) :
             RLt(RAbs(obs.before.pars[k]), obs.x[1]) => self.pars[k] = R(0)
       /\ \A k \in (1..Len(obs.before.pars)) \ Noise(obs.before.pars, obs.x[1], obs.x[2]) :
             self.pars[k] = obs.before.pars[k]
       /\ degree(self) = degree(obs.before)
       /\ self.xmin = obs.before.xmin
       /\ self.xmax = obs.before.xmax
       /\ obs.val = Cardinality({k \in 1..Len(self.pars) : self.pars[k] = R(0)})
       /\ remove_noise(self, obs.x[1], obs.x[2]).b.pars = self.pars

\* coefficients ( 2 , 1 ) with epsilon = 2: 1 is zeroed, 2 is kept, 1 is returned
C24_Witness ==
    /\ pc = "built"
    /\ obs.op = "remove_noise"
    /\ obs.x[1] = R(2)
    /\ obs.before.pars = <<R(2), R(1)>>
    /\ self.pars = <<R(2), R(0)>>
    /\ obs.val = 1

(***************************************************************************)
(* Degree reduction and the nearest polynomial of lower degree             *)
(***************************************************************************)
\* the coefficients of degree m - 1 from the i-th on ( counted from 0 ), by
\* back-substitution in the elevation identity
\* c'_i = ( i / m ) c_{i-1} + ( 1 - i / m ) c_i
RECURSIVE ReduceFrom(_, _, _)
ReduceFrom(pars, i, last) ==
    LET m  == Len(pars) - 1
        ci == RDiv(RSub(pars[i + 1], RMul(Frac(i, m), last)), RSub(R(1), Frac(i, m)))
    IN  IF i >= m THEN <<>> ELSE <<ci>> \o ReduceFrom(pars, i + 1, ci)

\* one step down that leaves nothing of a polynomial of degree 0
ReduceOnce_short(pars) == IF Len(pars) = 1 THEN <<>> ELSE <<pars[1]>> \o ReduceFrom(pars, 1, pars[1])

\* one step down; a polynomial of degree 0 stays as it is
ReduceOnce(pars) ==
    IF Len(pars) = 1 THEN pars ELSE <<pars[1]>> \o ReduceFrom(pars, 1, pars[1])

RECURSIVE ReducePars(_, _)
ReducePars(pars, r) == IF r = 0 THEN pars ELSE ReducePars(ReduceOnce(pars), r - 1)

\* Bernstein reduce ( const unsigned short r ) const: degree N - r, degree 0
\* when r >= N
reduce(b, r) == [b EXCEPT !.pars = ReducePars(b.pars, r)]

\* the sum of u_i v_i from the k-th term on
RECURSIVE Dot(_, _, _)
Dot(u, v, k) == IF k > Len(u) THEN R(0) ELSE RAdd(RMul(u[k], v[k]), Dot(u, v, k + 1))

\* the coefficients of ( -1 )^i C ( N , i ): a polynomial has degree below N
\* exactly when its coefficients are orthogonal to them
Alternating(N) ==
    [i \in 1..(N + 1) |-> R((IF (i - 1) % 2 = 0 THEN 1 ELSE -1) * Binomial(N, i - 1))]

\* Bernstein nearest ( q_inv = 0.5 ): the coefficients are projected on those of
\* the polynomials of degree below N and the result is reduced by one
nearest(b) ==
    LET v == Alternating(degree(b))
        m == RDiv(Dot(b.pars, v, 1), Dot(v, v, 1))
    IN  [b EXCEPT !.pars =
            ReduceOnce([i \in 1..Len(b.pars) |-> RSub(b.pars[i], RMul(m, v[i]))])]

(***************************************************************************)
(* SpecShape: up to MaxOps operations that return a polynomial are applied *)
(* one after the other, each to the result of the one before.              *)
(***************************************************************************)
\* the polynomials of degree 0, 1 and 2 the operations start from
ShapeInputs(h) ==
    \E pars \in SeqsOf(Ordinates, 1, 3), a \in {R(0), R(1)} :
       h = Made("shape", <<R(1), R(2)>>, pars, a, RAdd(a, R(1)), 0, "one")

InitShape ==
    /\ pc = "start"
    /\ self = NoInstance
    /\ other = NoInstance
    /\ obs = Done("none", R(0), R(0), NoInstance, 0)
    /\ ShapeInputs(how)

Construct_shape ==
    /\ pc = "start"
    /\ how.ctor = "shape"
    /\ self' = Bernstein_range(how.ys, how.a, how.b)
    /\ other' = Bernstein_range(how.xs, how.a, how.b)
    /\ pc' = "built"
    /\ UNCHANGED <<how, obs>>

Derive ==
    /\ pc = "built" /\ obs.n < MaxOps
    /\ self' = derivative(self)
    /\ obs' = Done("derivative", R(0), R(0), self, obs.n + 1)
    /\ UNCHANGED <<pc, other, how>>

Integrate_indefinite ==
    /\ pc = "built" /\ obs.n < MaxOps
    /\ self' = indefinite_integral(self, R(0))
    /\ obs' = Done("indefinite_integral", R(0), R(0), self, obs.n + 1)
    /\ UNCHANGED <<pc, other, how>>

Raise ==
    /\ pc = "built" /\ obs.n < MaxOps
    /\ \E r \in 1..MaxRaise :
          /\ self' = elevate(self, r)
          /\ obs' = Done("elevate", R(r), R(0), self, obs.n + 1)
    /\ UNCHANGED <<pc, other, how>>

Reduce ==
    /\ pc = "built" /\ obs.n < MaxOps
    /\ \E r \in 1..MaxPts :
          /\ self' = reduce(self, r)
          /\ obs' = Done("reduce", R(r), R(0), self, obs.n + 1)
    /\ UNCHANGED <<pc, other, how>>

Nearest ==
    /\ pc = "built" /\ obs.n < MaxOps
    /\ self' = nearest(self)
    /\ obs' = Done("nearest", R(0), R(0), self, obs.n + 1)
    /\ UNCHANGED <<pc, other, how>>

Quotient ==
    /\ pc = "built" /\ obs.n < MaxOps
    /\ self' = quotient(self, other)
    /\ obs' = Done("quotient", R(0), R(0), self, obs.n + 1)
    /\ UNCHANGED <<pc, other, how>>

Reminder ==
    /\ pc = "built" /\ obs.n < MaxOps
    /\ self' = reminder(self, other)
    /\ obs' = Done("reminder", R(0), R(0), self, obs.n + 1)
    /\ UNCHANGED <<pc, other, how>>

Add ==
    /\ pc = "built" /\ obs.n < MaxOps
    /\ self' = operator_plus(self, other)
    /\ obs' = Done("+", R(0), R(0), self, obs.n + 1)
    /\ UNCHANGED <<pc, other, how>>

Multiply ==
    /\ pc = "built" /\ obs.n < MaxOps
    /\ self' = operator_times(self, other)
    /\ obs' = Done("*", R(0), R(0), self, obs.n + 1)
    /\ UNCHANGED <<pc, other, how>>

NextShape ==
    \/ Construct_shape
    \/ Derive
    \/ Integrate_indefinite
    \/ Raise
    \/ Reduce
    \/ Nearest
    \/ Quotient
    \/ Reminder
    \/ Add
    \/ Multiply

SpecShape == InitShape /\ [][NextShape]_vars

C25_EmptyInterpolantIsZero ==
    (how.ctor = "interpolant" /\ Len(how.xs) = 0 /\ pc # "start") =>
       /\ pc = "built"
       /\ self.pars = <<R(0)>>

(***************************************************************************)
(* SpecStage: the interpolating constructor stage by stage.  other holds   *)
(* the work arrays _t, _f, w, c and the stage s that was completed last.   *)
(***************************************************************************)
Work(t, st, s) == [t |-> t, f |-> st.f, w |-> st.w, c |-> st.c, s |-> s]

\* pairwise distinct abscissas, as many ordinates, xmin < xmax
StageInputs(h) ==
    \E xs \in SeqsOf(Abscissas, 1, MaxPts), a \in Abscissas, b \in Abscissas :
       /\ Distinct(xs)
       /\ RLt(a, b)
       /\ \E ys \in SeqsOf(Ordinates, Len(xs), Len(xs)) :
             h = Made("interpolant", xs, ys, a, b, 0, "one")

InitStage ==
    /\ pc = "start"
    /\ self = NoInstance
    /\ other = NoInstance
    /\ obs = Seen("none", R(0), R(0))
    /\ StageInputs(how)

\* the member initialisers and the work arrays up to w[0] = 1.0 , c[0] = _f[0]
Begin_stages ==
    /\ pc = "start"
    /\ how.ctor = "interpolant"
    /\ self' = [pars |-> PolySum_degree(Len(how.xs) - 1),
                xmin |-> RMin(how.a, how.b),
                xmax |-> RMax(how.a, how.b)]
    /\ other' = Work(Init_t(self', how.xs), Stage0(how.ys, Len(how.xs)), 0)
    /\ pc' = "stage"
    /\ UNCHANGED <<how, obs>>

\* one pass of for ( unsigned int s = 1 ; s < N ; ++s )
Run_stage ==
    /\ pc = "stage"
    /\ other.s + 1 < Len(how.xs)
    /\ other' = Work(other.t, Stage(other, other.t, other.s + 1, Len(how.xs)), other.s + 1)
    /\ UNCHANGED <<pc, self, how, obs>>

\* the loop over s is left and the parameters are set
Finish_stages ==
    /\ pc = "stage"
    /\ ~(other.s + 1 < Len(how.xs))
    /\ self' = [self EXCEPT !.pars = SetPars(self.pars, other.c, Len(how.xs))]
    /\ pc' = "built"
    /\ UNCHANGED <<other, how, obs>>

NextStage ==
    \/ Begin_stages
    \/ Run_stage
    \/ Finish_stages

SpecStage == InitStage /\ [][NextStage]_vars

\* the divided difference f[t_i,...,t_j] of the samples ( t , y ), positions from 0
RECURSIVE Divided(_, _, _, _)
Divided(t, y, i, j) ==
    IF i = j THEN y[i + 1]
    ELSE RDiv(RSub(Divided(t, y, i + 1, j), Divided(t, y, i, j - 1)),
              RSub(t[j + 1], t[i + 1]))

\* C26: after stage s, _f[k] is f[t_{k-s},...,t_k] for k >= s and
\* f[t_0,...,t_k] for k < s; so _f[s] is the Newton coefficient f[t_0,...,t_s].
C26_DividedDifferences ==
    pc \in {"stage", "built"} =>
       \A k \in 0..(Len(how.xs) - 1) :
          other.f[k + 1] =
             IF k >= other.s THEN Divided(other.t, how.ys, k - other.s, k)
             ELSE Divided(other.t, how.ys, 0, k)

\* three samples after the second stage, with a second difference that is not 0
C26_Witness ==
    /\ pc = "stage"
    /\ Len(how.xs) = 3
    /\ other.s = 2
    /\ other.f[3] # R(0)
    /\ other.f[2] # other.f[3]

\* the product of ( tau - t_i ) over the first s abscissas
RECURSIVE Nodal(_, _, _)
Nodal(t, s, tau) == IF s = 0 THEN R(1) ELSE RMul(Nodal(t, s - 1, tau), RSub(tau, t[s]))

\* the points at which polynomials of degree below MaxPts are compared
Probes == {R(i) : i \in 0..MaxPts}

\* C27: after stage s, w[0..s] are the Bernstein coefficients of degree s of the
\* product of ( t - t_i ) over i < s and c[0..s] those of the polynomial of
\* degree s through the first s + 1 samples; the coefficients set at the end
\* are those of the interpolating polynomial of degree N - 1.
C27_StageInvariant ==
    /\ pc \in {"stage", "built"} =>
          /\ \A tau \in Probes :
                casteljau(SubSeq(other.w, 1, other.s + 1), tau) = Nodal(other.t, other.s, tau)
          /\ \A i \in 0..other.s :
                casteljau(SubSeq(other.c, 1, other.s + 1), other.t[i + 1]) = how.ys[i + 1]
    /\ pc = "built" =>
          /\ other.s = Len(how.xs) - 1
          /\ Len(self.pars) = Len(how.xs)
          /\ \A i \in 1..Len(how.xs) : casteljau(self.pars, other.t[i]) = how.ys[i]

\* three samples that lie on no straight line, after the last stage
C27_Witness ==
    /\ pc = "built"
    /\ Len(how.xs) = 3
    /\ other.s = 2
    /\ how.ys = <<R(0), R(1), R(0)>>
    /\ other.w[3] # R(0)

\* C28: for N >= 1 and xmin # xmax the N + 1 abscissas that lobatto hands to the
\* interpolating constructor increase strictly, so that no divided difference
\* divides by zero and every coefficient of the result is a finite number.
C28_LobattoGridIncreasing ==
    (Built("lobatto") /\ how.N >= 1 /\ how.a # how.b) =>
       /\ \A i \in 1..Len(how.xs) : \A j \in 1..Len(how.xs) :
             i < j => RLt(how.xs[i], how.xs[j])
       /\ \A k \in 1..Len(self.pars) : IsFinite(self.pars[k])

\* the orders in which n samples can be supplied
Orders(n) == {p \in [1..n -> 1..n] : \A i \in 1..n : \A j \in 1..n : p[i] = p[j] => i = j}

\* C29: for pairwise distinct abscissas, the samples supplied in any other order
\* with the same xmin and xmax give the same coefficients.
C29_OrderOfSamples ==
    Built("interpolant") =>
       \A p \in Orders(Len(how.xs)) :
          bernstein([i \in 1..Len(how.xs) |-> how.xs[p[i]]],
                    [i \in 1..Len(how.xs) |-> how.ys[p[i]]], how.a, how.b).pars = self.pars

\* three samples, not on a straight line, that have an order to change
C29_Witness ==
    /\ Built("interpolant")
    /\ how.xs = <<R(2), R(0), R(1)>>
    /\ how.ys = <<R(1), R(0), R(0)>>
    /\ self.pars[2] # self.pars[1]
    /\ self.pars[2] # self.pars[3]

(***************************************************************************)
(* SpecLoop: the control of the loops of the interpolating constructor.    *)
(* other holds N and the counters s, k, j ( unsigned int ) and             *)
(* i ( unsigned short ); calls counts the setPar calls; obs holds the      *)
(* positions of the work arrays that the last step read or wrote.          *)
(***************************************************************************)
\* --k and --j of an unsigned int
Decrement(k) == IF k = 0 THEN UnsignedIntMax ELSE k - 1

Counters(N, s, k, j, i, calls) == [N |-> N, s |-> s, k |-> k, j |-> j, i |-> i, calls |-> calls]

\* the numbers of abscissas at which the counter of the copy loop is at the end
\* of its range
LargeCounts == {UnsignedShortRange - 1, UnsignedShortRange}

LoopInputs(h) ==
    \E N \in (1..MaxPts) \cup LargeCounts :
       h = Made("loops", <<>>, <<>>, R(0), R(1), N, "one")

\* for the large N a run starts where the stages are passed, at the copy loop
InitLoop ==
    /\ self = NoInstance
    /\ LoopInputs(how)
    /\ obs = Seen("none", {}, R(0))
    /\ \/ /\ how.N \in 1..MaxPts
          /\ pc = "start"
          /\ other = NoInstance
       \/ /\ how.N \in LargeCounts
          /\ pc = "copy"
          /\ other = Counters(how.N, how.N, how.N - 1, 0, 0, 0)

\* w[0] = 1.0 ; c[0] = _f[0] ; and s = 1
Enter_loops ==
    /\ pc = "start"
    /\ how.ctor = "loops"
    /\ other' = Counters(how.N, 1, 0, 0, 0, 0)
    /\ obs' = Seen("init", {0}, R(0))
    /\ pc' = "s_loop"
    /\ UNCHANGED <<self, how>>

\* s < N holds: unsigned int k = N - 1
Stage_enter ==
    /\ pc = "s_loop"
    /\ other.s < other.N
    /\ other' = [other EXCEPT !.k = other.N - 1]
    /\ pc' = "k_loop"
    /\ UNCHANGED <<self, how, obs>>

\* s < N fails: unsigned short i = 0
Stage_exit ==
    /\ pc = "s_loop"
    /\ ~(other.s < other.N)
    /\ other' = [other EXCEPT !.i = 0]
    /\ pc' = "copy"
    /\ UNCHANGED <<self, how, obs>>

\* s <= k holds: _f[k], _f[k-1], _t[k], _t[k-s] and --k
K_step ==
    /\ pc = "k_loop"
    /\ other.s <= other.k
    /\ obs' = Seen("k", {other.k, other.k - 1, other.k - other.s}, R(0))
    /\ other' = [other EXCEPT !.k = Decrement(other.k)]
    /\ UNCHANGED <<pc, self, how>>

\* s <= k fails: xs1 = _t[s-1] and unsigned int j = s
K_exit ==
    /\ pc = "k_loop"
    /\ ~(other.s <= other.k)
    /\ obs' = Seen("xs1", {other.s - 1}, R(0))
    /\ other' = [other EXCEPT !.j = other.s]
    /\ pc' = "j_loop"
    /\ UNCHANGED <<self, how>>

\* 1 <= j holds: w[j], w[j-1], c[j], c[j-1], _f[s] and --j
J_step ==
    /\ pc = "j_loop"
    /\ 1 <= other.j
    /\ obs' = Seen("j", {other.j, other.j - 1, other.s}, R(0))
    /\ other' = [other EXCEPT !.j = Decrement(other.j)]
    /\ UNCHANGED <<pc, self, how>>

\* 1 <= j fails: w[0], c[0], _f[s] and ++s
J_exit ==
    /\ pc = "j_loop"
    /\ ~(1 <= other.j)
    /\ obs' = Seen("0", {0, other.s}, R(0))
    /\ other' = [other EXCEPT !.s = other.s + 1]
    /\ pc' = "s_loop"
    /\ UNCHANGED <<self, how>>

\* i < N holds: setPar ( i , c[i] ) and ++i; followed as long as no more than
\* N calls were made
Copy_step ==
    /\ pc = "copy"
    /\ other.i < other.N
    /\ other.calls <= other.N
    /\ obs' = Seen("copy", {other.i}, R(0))
    /\ other' = [other EXCEPT !.i = (other.i + 1) % UnsignedShortRange,
                              !.calls = other.calls + 1]
    /\ UNCHANGED <<pc, self, how>>

\* i < N fails: the constructor returns
Copy_exit ==
    /\ pc = "copy"
    /\ ~(other.i < other.N)
    /\ pc' = "built"
    /\ UNCHANGED <<self, other, how, obs>>

NextLoop ==
    \/ Enter_loops
    \/ Stage_enter
    \/ Stage_exit
    \/ K_step
    \/ K_exit
    \/ J_step
    \/ J_exit
    \/ Copy_step
    \/ Copy_exit

SpecLoop == InitLoop /\ [][NextLoop]_vars

\* the counters k and j stay between the value at which their loop stops and
\* the value it starts from, and every position used is one of 0..N-1
LoopsInRange ==
    /\ pc = "k_loop" => (other.s - 1 <= other.k /\ other.k <= other.N - 1)
    /\ pc = "j_loop" => (0 <= other.j /\ other.j <= other.s)
    /\ pc \in {"s_loop", "k_loop", "j_loop", "copy", "built"} =>
          \A p \in obs.x : 0 <= p /\ p <= other.N - 1

\* C30: for every N >= 1 the loops over k and j stop at s - 1 and at 0 without
\* wrapping and use only the positions 0..N-1, and the copy loop makes exactly
\* N setPar calls and ends.
C30_LoopsTerminate ==
    /\ LoopsInRange
    /\ pc = "copy" => other.calls <= other.N
    /\ pc = "built" => other.calls = other.N

====
